---- MODULE Spec2Model ----
(***************************************************************************)
(* react-frontload (src/src/index.js): the registry of frontload queues,   *)
(* the pushFrontload decision of a Frontload provider, the flush engine    *)
(* (flushQueues / waitForAllToComplete) and the recursive server render    *)
(* coordinator (frontloadServerRender / frontloadServerRenderWorker).      *)
(*                                                                         *)
(* One JavaScript job (a synchronous run to completion) is one action.     *)
(* Suspension only happens on the promise returned by flushQueues().       *)
(***************************************************************************)
EXTENDS Integers, Sequences, FiniteSets, TLC

\* ------------------------------------------------------------------ bounds
\* number of frontload-connected components of the rendered <App />
NumNodes == 3
\* largest maxNestedFrontloadComponents passed to frontloadServerRender
MaxBudget == 3
\* Frontload providers mounted outside a server render
MaxProviders == 2
\* requests queued in the whole registry by pushes made outside a render
MaxQueue == 1
\* fetch executions made directly by client pushes
MaxExec == 1
\* calls of frontloadServerRender made one after the other in a process
MaxRuns == 2
\* calls of flushQueues made outside a server render
MaxFlushes == 1

Nodes == 1..NumNodes

\* `index === undefined` in cleanQueues / flushQueues
Undefined == 0 - 1

VARIABLES
  FRONTLOAD_QUEUES,  \* the registry: a sequence of queues, slot i at i + 1
  providers,         \* mounted Frontload instances
  app,               \* the rendered tree: per node its condition and options
  loaded,            \* the external store: node n's data has arrived
  execCount,         \* number of invocations of each node's frontload fn
  fetches,           \* promises returned by frontload fns to a flush
  flushes,           \* promises returned by flushQueues
  run                \* the frontloadServerRender call

vars == <<FRONTLOAD_QUEUES, providers, app, loaded, execCount, fetches, flushes, run>>

\* ------------------------------------------------------------ node options
\* options as pushFrontload reads them: onMount is FALSE only when it is
\* explicitly false (`options.onMount === false`), onUpdate and
\* noServerRender are TRUE only when truthy (unset counts as FALSE).
OptionSets == [onMount : BOOLEAN, onUpdate : BOOLEAN, noServerRender : BOOLEAN]

DefaultOptions == [onMount |-> TRUE, onUpdate |-> FALSE, noServerRender |-> FALSE]

\* ---------------------------------------------------------------- registry
\* Mutation: cleanQueues() empties every slot and keeps the slots.
cleanQueuesInPlace(qs, index) ==
  IF index = Undefined
    THEN [i \in DOMAIN qs |-> << >>]
    ELSE [qs EXCEPT ![index + 1] = << >>]

\* Mutation: cleanQueues does nothing.
cleanQueuesNoop(qs, index) == qs

\* cleanQueues(index)
cleanQueues(qs, index) ==
  IF index = Undefined
    THEN << >>
    ELSE [qs EXCEPT ![index + 1] = << >>]

\* Array.prototype.unshift: the new request goes to the front
unshift(queue, request) == <<request>> \o queue

\* ------------------------------------------------------------ push protocol
\* Mutation: the server forgets the noServerRender gate.
pushFrontloadNoGate(isServer, firstClientRenderDone, provNoServerRender, options, isMount) ==
  LET isUpdate == ~isMount
      noServerRender == provNoServerRender \/ options.noServerRender
  IN  IF (isMount /\ options.onMount = FALSE) \/ (isUpdate /\ ~options.onUpdate)
        THEN "skip"
        ELSE IF isServer
          THEN "enqueue"
          ELSE IF noServerRender \/ firstClientRenderDone THEN "execute" ELSE "skip"

\* Mutation: the lifecycle flags are swapped.
pushFrontloadSwapped(isServer, firstClientRenderDone, provNoServerRender, options, isMount) ==
  LET isUpdate == ~isMount
      noServerRender == provNoServerRender \/ options.noServerRender
  IN  IF (isServer /\ noServerRender)
         \/ (isUpdate /\ options.onMount = FALSE)
         \/ (isMount /\ ~options.onUpdate)
        THEN "skip"
        ELSE IF isServer
          THEN "enqueue"
          ELSE IF noServerRender \/ firstClientRenderDone THEN "execute" ELSE "skip"

\* Mutation: the client ignores the first-render latch.
pushFrontloadNoLatch(isServer, firstClientRenderDone, provNoServerRender, options, isMount) ==
  LET isUpdate == ~isMount
      noServerRender == provNoServerRender \/ options.noServerRender
  IN  IF (isServer /\ noServerRender)
         \/ (isMount /\ options.onMount = FALSE)
         \/ (isUpdate /\ ~options.onUpdate)
        THEN "skip"
        ELSE IF isServer THEN "enqueue" ELSE "execute"

\* Mutation: the client only looks at the latch, not at noServerRender.
pushFrontloadLatchOnly(isServer, firstClientRenderDone, provNoServerRender, options, isMount) ==
  LET isUpdate == ~isMount
      noServerRender == provNoServerRender \/ options.noServerRender
  IN  IF (isServer /\ noServerRender)
         \/ (isMount /\ options.onMount = FALSE)
         \/ (isUpdate /\ ~options.onUpdate)
        THEN "skip"
        ELSE IF isServer
          THEN "enqueue"
          ELSE IF firstClientRenderDone THEN "execute" ELSE "skip"

\* Mutation: the lifecycle flags are only looked at on the server.
pushFrontloadServerGate(isServer, firstClientRenderDone, provNoServerRender, options, isMount) ==
  LET isUpdate == ~isMount
      noServerRender == provNoServerRender \/ options.noServerRender
  IN  IF isServer /\ (noServerRender
                        \/ (isMount /\ options.onMount = FALSE)
                        \/ (isUpdate /\ ~options.onUpdate))
        THEN "skip"
        ELSE IF isServer
          THEN "enqueue"
          ELSE IF noServerRender \/ firstClientRenderDone THEN "execute" ELSE "skip"

\* Mutation: the unshift comes before the client branch, a client push
\* that does not execute is queued.
pushFrontloadClientQueue(isServer, firstClientRenderDone, provNoServerRender, options, isMount) ==
  LET isUpdate == ~isMount
      noServerRender == provNoServerRender \/ options.noServerRender
  IN  IF (isServer /\ noServerRender)
         \/ (isMount /\ options.onMount = FALSE)
         \/ (isUpdate /\ ~options.onUpdate)
        THEN "skip"
        ELSE IF isServer \/ ~(noServerRender \/ firstClientRenderDone)
          THEN "enqueue"
          ELSE "execute"

\* The decision taken by the pushFrontload closure of getChildContext:
\* what a push does, given the provider and the node's options.
pushFrontload(isServer, firstClientRenderDone, provNoServerRender, options, isMount) ==
  LET isUpdate == ~isMount
      noServerRender == provNoServerRender \/ options.noServerRender
  IN  IF (isServer /\ noServerRender)
         \/ (isMount /\ options.onMount = FALSE)
         \/ (isUpdate /\ ~options.onUpdate)
        THEN "skip"
        ELSE IF isServer
          THEN "enqueue"
          ELSE IF noServerRender \/ firstClientRenderDone THEN "execute" ELSE "skip"

\* the entry pushed to the queue: the closure over the node and the phase,
\* and the node's options
Request(n, options, isMount) == [node |-> n, options |-> options, isMount |-> isMount]

\* ---------------------------------------------------------------- renderer
\* The render function handed to frontloadServerRender renders
\*   <Frontload isServer noServerRender={app.noServerRender}> <App/> </Frontload>
\* app.cond[n] = 0: node n is always rendered; k > 0: rendered once node k's
\* data is in the store; k < 0: rendered while node -k's data is missing.
RECURSIVE Visible(_, _)
Visible(n, ld) ==
  LET c == app.cond[n]
  IN  IF c = 0 THEN TRUE
      ELSE IF c > 0 THEN Visible(c, ld) /\ ld[c]
      ELSE Visible(0 - c, ld) /\ ~ld[0 - c]

\* the render of component n throws: always, or only with its data absent
\* ("loading") or present ("loaded")
crash(n, ld) ==
  \/ app.crashes[n] = "always"
  \/ app.crashes[n] = "loading" /\ ~ld[n]
  \/ app.crashes[n] = "loaded" /\ ld[n]

\* the first rendered component whose render throws, 0 if the render of
\* the tree returns
renderThrowsAt(ld) ==
  LET thrown == {n \in Nodes : Visible(n, ld) /\ crash(n, ld)}
  IN  IF thrown = {} THEN 0 ELSE CHOOSE n \in thrown : \A k \in thrown : n <= k

renderThrows(ld) == renderThrowsAt(ld) # 0

\* componentWillMount of each rendered FrontloadConnectedComponent, parents
\* first, pushes LIFECYCLE_PHASES.MOUNT to the provider built by this render
RECURSIVE renderNodes(_, _, _, _)
renderNodes(qs, queueIndex, ld, n) ==
  IF n > NumNodes \/ (renderThrows(ld) /\ n > renderThrowsAt(ld)) THEN qs
  ELSE LET act == pushFrontload(TRUE, TRUE, app.noServerRender, app.options[n], TRUE)
           qs2 == IF Visible(n, ld) /\ act = "enqueue"
                    THEN [qs EXCEPT ![queueIndex + 1] =
                            unshift(@, Request(n, app.options[n], TRUE))]
                    ELSE qs
       IN  renderNodes(qs2, queueIndex, ld, n + 1)

\* Mutation: the nodes push to slot 0 whatever queue the constructor got.
renderSlotZero(qs, ld) == renderNodes(Append(qs, << >>), 0, ld, 1)

\* one synchronous render: the Frontload constructor allocates a queue
\* (FRONTLOAD_QUEUES.push([]) - 1), then the nodes push
render(qs, ld) == renderNodes(Append(qs, << >>), Len(qs), ld, 1)

\* what the markup shows for each node
Output(ld) ==
  [n \in Nodes |-> IF ~Visible(n, ld) THEN "absent"
                   ELSE IF ld[n] THEN "loaded" ELSE "loading"]

\* ------------------------------------------------------------ flush engine
\* Mutation: the handler rethrows, the rejection stays a rejection.
catchErrorRethrow(state) == state

\* `promise['catch']((error) => error)`: a rejection becomes a fulfilment
catchError(state) == IF state = "rejected" THEN "fulfilled" ELSE state

\* Mutation: the joined promise is fulfilled by the first fulfilment.
PromiseFirst(states) ==
  IF \E i \in DOMAIN states : states[i] = "rejected" THEN "rejected"
  ELSE IF states = << >> \/ \E i \in DOMAIN states : states[i] = "fulfilled"
    THEN "fulfilled"
  ELSE "pending"

\* Promise.all over promises in the given states
PromiseAll(states) ==
  IF \E i \in DOMAIN states : states[i] = "rejected" THEN "rejected"
  ELSE IF \A i \in DOMAIN states : states[i] = "fulfilled" THEN "fulfilled"
  ELSE "pending"

\* Mutation: plain Promise.all, short-circuiting on the first rejection.
waitForAllShortCircuit(states) == PromiseAll(states)

\* waitForAllToComplete(promises)
waitForAllToComplete(states) ==
  PromiseAll([i \in DOMAIN states |-> catchError(states[i])])

\* Mutation: the flush options are not looked at.
flushFilterAll(queue, options) == queue

\* Mutation: the flush starts the first request only.
flushFilterFirst(queue, options) ==
  IF queue = << >> THEN << >> ELSE <<Head(queue)>>

\* the test of the loop of flushQueues(index, options) on one request
flushTest(frontload, options) ==
  IF ~options.firstClientRender THEN TRUE
  ELSE options.noServerRender \/ frontload.options.noServerRender

\* the loop of flushQueues(index, options): it goes by position through
\* the slot's array and reads its length at each turn, while a fetch
\* function that mounts the connected component app.mounts[n] under the
\* slot's provider, the first time the loop calls it, has the component's
\* request put at the front of the same array; yields the requests called,
\* in order, and the array the loop ends with
RECURSIVE flushLoop(_, _, _, _, _)
flushLoop(queue, i, options, executed, mounted) ==
  IF i > Len(queue) THEN [executed |-> executed, queue |-> queue]
  ELSE LET frontload == queue[i]
           child == app.mounts[frontload.node]
           runs == flushTest(frontload, options)
           pushes == /\ runs /\ child # 0 /\ child \notin mounted
                     /\ pushFrontload(TRUE, TRUE, app.noServerRender,
                                      app.options[child], TRUE) = "enqueue"
       IN  flushLoop(IF pushes
                       THEN unshift(queue, Request(child, app.options[child], TRUE))
                       ELSE queue,
                     i + 1, options,
                     IF runs THEN Append(executed, frontload) ELSE executed,
                     IF pushes THEN mounted \cup {child} ELSE mounted)

\* the requests of a queue that flushQueues(index, options) executes
flushFilter(queue, options) == flushLoop(queue, 1, options, << >>, {}).executed

\* flushQueues called with no options: `options = {}`
NoFlushOptions == [firstClientRender |-> FALSE, noServerRender |-> FALSE]

\* the fetch promises created by executing the requests, in queue order
launch(reqs) == [i \in 1..Len(reqs) |-> [node |-> reqs[i].node, state |-> "pending"]]

\* ids the new promises get when appended to the table fts
newIds(fts, reqs) == [i \in 1..Len(reqs) |-> Len(fts) + i]

\* execution counters after running the requests
RECURSIVE counted(_, _)
counted(ec, reqs) ==
  IF reqs = << >> THEN ec
  ELSE counted([ec EXCEPT ![Head(reqs).node] = @ + 1], Tail(reqs))

\* Mutation: flushQueues() flushes the first slot only.
flushAllSlotZero(qs, i, fts, batches, ec) ==
  IF qs = << >> THEN [fetches |-> fts, batches |-> batches, execCount |-> ec]
  ELSE LET reqs == flushFilter(qs[1], NoFlushOptions)
       IN  [fetches |-> fts \o launch(reqs),
            batches |-> Append(batches, newIds(fts, reqs)),
            execCount |-> counted(ec, reqs)]

\* flushQueues() with index undefined: flushQueues(i) for every slot, then
\* cleanQueues(); yields the fetch table, the per-slot batches, the counters
RECURSIVE flushAll(_, _, _, _, _)
flushAll(qs, i, fts, batches, ec) ==
  IF i > Len(qs) THEN [fetches |-> fts, batches |-> batches, execCount |-> ec]
  ELSE LET reqs == flushFilter(qs[i], NoFlushOptions)
       IN  flushAll(qs, i + 1, fts \o launch(reqs),
                    Append(batches, newIds(fts, reqs)), counted(ec, reqs))

\* a request of the registry whose fetch function throws when called
flushThrows(qs) ==
  \E i \in DOMAIN qs : \E j \in DOMAIN qs[i] : app.throws[qs[i][j].node]

\* position of the first request whose fetch function throws, 0 if none
firstThrow(reqs) ==
  LET thrown == {j \in DOMAIN reqs : app.throws[reqs[j].node]}
  IN  IF thrown = {} THEN 0 ELSE CHOOSE j \in thrown : \A k \in thrown : j <= k

\* flushQueues() left by an exception of frontload.fn(): the slots before
\* the one that throws were flushed and emptied, in that slot the requests
\* up to the one that throws were called, and no cleanQueues follows
RECURSIVE flushUntilThrow(_, _, _, _)
flushUntilThrow(qs, i, fts, ec) ==
  IF i > Len(qs) THEN [queues |-> qs, fetches |-> fts, execCount |-> ec]
  ELSE LET reqs == flushFilter(qs[i], NoFlushOptions)
           k == firstThrow(reqs)
       IN  IF k = 0
             THEN flushUntilThrow([qs EXCEPT ![i] = << >>], i + 1,
                                  fts \o launch(reqs), counted(ec, reqs))
             ELSE [queues |-> qs,
                   fetches |-> fts \o launch(SubSeq(reqs, 1, k - 1)),
                   execCount |-> counted(ec, SubSeq(reqs, 1, k))]

\* Mutation: the wait gives up, the promise is fulfilled at once.
batchStateTimeout(fts, batch) == "fulfilled"

\* state of the promise of one flushQueues(i): waitForAllToComplete
batchState(fts, batch) ==
  waitForAllToComplete([j \in DOMAIN batch |-> fts[batch[j]].state])

\* state of the promise of flushQueues(): Promise.all of the per-slot ones
flushState(fts, batches) ==
  PromiseAll([b \in DOMAIN batches |-> batchState(fts, batches[b])])

\* ------------------------------------------------------------- coordinator
\* options.maxNestedFrontloadComponents: unset, or a number; 0 and -1 are
\* the values below the documented minimum of 1
BudgetOptions ==
  {[set |-> FALSE, value |-> 0]} \cup
  {[set |-> TRUE, value |-> v] : v \in (0 - 1)..MaxBudget}

LoggingOptions == {"unset", "true", "false"}

\* Mutation: the default budget is two passes.
defaultMaxNestedTwo(budget) ==
  IF ~budget.set \/ budget.value = 0 THEN 2 ELSE budget.value

\* `!options.maxNestedFrontloadComponents`: unset and 0 become 1, any other
\* number is kept as it is
defaultMaxNested(budget) ==
  IF ~budget.set \/ budget.value = 0 THEN 1 ELSE budget.value

\* withLogging defaults to true outside production
defaultWithLogging(production, logging) ==
  IF ~production /\ logging = "unset" THEN TRUE ELSE logging = "true"

\* Mutation: the previous pass's total is not subtracted.
newFrontloadsNotSubtracted(total, frontloadsInLastRender) == total

\* newFrontloadsInThisRender
newFrontloads(total, frontloadsInLastRender) == total - frontloadsInLastRender

\* Mutation: the budget test is off by one pass.
budgetReachedLate(renderNumber, maxNested) == renderNumber = maxNested + 1

\* Mutation: the budget is never tested.
budgetReachedNever(renderNumber, maxNested) == FALSE

\* `renderNumber === maxNestedFrontloadComponents`
budgetReached(renderNumber, maxNested) == renderNumber = maxNested

\* Mutation: the size of slot 0 is taken as it is.
frontloadsLeftNotSubtracted(queueLength, total) == queueLength

\* frontloadsLeftToRun after the render that follows the last flush
frontloadsLeftToRun(queueLength, total) == queueLength - total

\* the guard of the WARNING log
shouldWarn(production, withLogging, left) ==
  ~production /\ withLogging /\ left > 0

IdleRun ==
  [pc |-> "idle", budget |-> [set |-> FALSE, value |-> 0], logging |-> "unset",
   production |-> FALSE,
   maxNestedFrontloadComponents |-> 0, withLogging |-> FALSE,
   renderNumber |-> 0, frontloadsInLastRender |-> 0,
   totalFrontloadsInThisRender |-> 0, newFrontloadsInThisRender |-> 0,
   output |-> [n \in Nodes |-> "absent"],
   dryRuns |-> 0, finalRenders |-> 0, flushCount |-> 0, warnings |-> 0,
   rejections |-> FALSE, history |-> << >>, other |-> << >>]

\* frontloadServerRenderWorker(render, options, renderNumber, frontloadsInLastRender):
\* the synchronous part, up to the fixpoint return or the flushQueues() call
frontloadServerRenderWorker(r, renderNumber, frontloadsInLastRender, fts, fls) ==
  LET rendered == render(FRONTLOAD_QUEUES, loaded)
      frontloadsQueue == rendered[1]
      totalFrontloadsInThisRender == Len(frontloadsQueue)
      newFrontloadsInThisRender ==
        newFrontloads(totalFrontloadsInThisRender, frontloadsInLastRender)
      r1 == [r EXCEPT !.renderNumber = renderNumber,
                      !.frontloadsInLastRender = frontloadsInLastRender,
                      !.totalFrontloadsInThisRender = totalFrontloadsInThisRender,
                      !.newFrontloadsInThisRender = newFrontloadsInThisRender,
                      !.dryRuns = @ + 1]
  IN  IF renderThrows(loaded)
        THEN \* render(true) throws out of the worker: out of
             \* frontloadServerRender in the first pass, out of the
             \* then-callback, rejecting the result, in a later one; the
             \* queue of the render's provider stays as the render left it
          /\ FRONTLOAD_QUEUES' = rendered
          /\ run' = [r EXCEPT !.renderNumber = renderNumber,
                              !.frontloadsInLastRender = frontloadsInLastRender,
                              !.dryRuns = @ + 1,
                              !.pc = IF renderNumber = 1 THEN "thrown" ELSE "rejected"]
          /\ fetches' = fts
          /\ flushes' = fls
          /\ UNCHANGED execCount
        ELSE IF newFrontloadsInThisRender = 0
        THEN \* cleanQueues(); render(false); cleanQueues()
          LET final == render(cleanQueues(rendered, Undefined), loaded)
          IN  /\ FRONTLOAD_QUEUES' = cleanQueues(final, Undefined)
              /\ run' = [r1 EXCEPT !.pc = "done", !.output = Output(loaded),
                                   !.finalRenders = @ + 1]
              /\ fetches' = fts
              /\ flushes' = fls
              /\ UNCHANGED execCount
        ELSE IF flushThrows(rendered)
        THEN \* frontload.fn() throws out of flushQueues() and of the worker:
             \* out of frontloadServerRender in the first pass, out of the
             \* then-callback, rejecting the result, in a later one
          LET fl == flushUntilThrow(rendered, 1, fts, execCount)
          IN  /\ FRONTLOAD_QUEUES' = fl.queues
              /\ fetches' = fl.fetches
              /\ execCount' = fl.execCount
              /\ flushes' = fls
              /\ run' = [r1 EXCEPT !.pc = IF renderNumber = 1 THEN "thrown"
                                                              ELSE "rejected"]
        ELSE \* flushQueues().then(...)
          LET fl == flushAll(rendered, 1, fts, << >>, execCount)
          IN  /\ FRONTLOAD_QUEUES' = cleanQueues(rendered, Undefined)
              /\ fetches' = fl.fetches
              /\ execCount' = fl.execCount
              /\ flushes' = Append(fls,
                   [batches |-> fl.batches,
                    state |-> flushState(fl.fetches, fl.batches)])
              /\ run' = [r1 EXCEPT !.pc = "flushing", !.flushCount = @ + 1]

\* frontloadServerRender(render, options), called on an empty registry
\* in a process whose NODE_ENV is production or not
FrontloadServerRender(budget, logging, production) ==
  /\ run.pc = "idle"
  /\ LET r == [run EXCEPT !.budget = budget, !.logging = logging,
                          !.production = production,
                          !.maxNestedFrontloadComponents = defaultMaxNested(budget),
                          !.withLogging = defaultWithLogging(production, logging)]
     IN  frontloadServerRenderWorker(r, 1, 0, fetches, flushes)
  /\ UNCHANGED <<providers, app, loaded>>

\* a fetch promise held by a flush settles; a fulfilled fetch has written
\* its data to the store; the flush promises follow; the run's record notes
\* whether one of its fetches has rejected
Settle(f, outcome) ==
  /\ f \in DOMAIN fetches
  /\ fetches[f].state = "pending"
  /\ fetches' = [fetches EXCEPT ![f].state = outcome]
  /\ loaded' = IF outcome = "fulfilled"
                 THEN [loaded EXCEPT ![fetches[f].node] = TRUE]
                 ELSE loaded
  /\ flushes' = [k \in DOMAIN flushes |->
                   IF flushes[k].state = "pending"
                     THEN [flushes[k] EXCEPT !.state = flushState(fetches', flushes[k].batches)]
                     ELSE flushes[k]]
  /\ run' = [run EXCEPT !.rejections = @ \/ outcome = "rejected"]
  /\ UNCHANGED <<FRONTLOAD_QUEUES, providers, app, execCount>>

\* the callback of flushQueues().then(...) in frontloadServerRenderWorker;
\* a rejected flush promise skips the callback and rejects the result
FlushThen ==
  /\ run.pc = "flushing"
  /\ flushes # << >>
  /\ flushes[Len(flushes)].state # "pending"
  /\ IF flushes[Len(flushes)].state = "rejected"
       THEN /\ run' = [run EXCEPT !.pc = "rejected"]
            /\ UNCHANGED <<FRONTLOAD_QUEUES, fetches, flushes, execCount>>
       ELSE IF budgetReached(run.renderNumber, run.maxNestedFrontloadComponents)
         THEN IF renderThrows(loaded)
           THEN \* render(false) throws out of the then-callback
             /\ FRONTLOAD_QUEUES' = render(FRONTLOAD_QUEUES, loaded)
             /\ run' = [run EXCEPT !.pc = "rejected", !.finalRenders = @ + 1]
             /\ UNCHANGED <<fetches, flushes, execCount>>
           ELSE \* render(false); count what is left; cleanQueues()
           LET final == render(FRONTLOAD_QUEUES, loaded)
               frontloadsQueue == final[1]
               left == frontloadsLeftToRun(Len(frontloadsQueue), run.totalFrontloadsInThisRender)
               warn == shouldWarn(run.production, run.withLogging, left)
           IN  /\ FRONTLOAD_QUEUES' = cleanQueues(final, Undefined)
               /\ run' = [run EXCEPT !.pc = "done", !.output = Output(loaded),
                                     !.finalRenders = @ + 1,
                                     !.warnings = IF warn THEN @ + 1 ELSE @]
               /\ UNCHANGED <<fetches, flushes, execCount>>
         ELSE \* recurse; the settled promises of this pass are dropped
           frontloadServerRenderWorker(run, run.renderNumber + 1,
             run.frontloadsInLastRender + run.newFrontloadsInThisRender,
             << >>, << >>)
  /\ UNCHANGED <<providers, app, loaded>>

\* fetch functions that mount nothing while they run
NoMounts == [n \in Nodes |-> 0]

\* components whose render never throws
NoCrashes == [n \in Nodes |-> "never"]

\* fetch functions that return their promise: none throws when called
NoThrows == [n \in Nodes |-> FALSE]

\* the options of the connected components of the test file (526-557)
ComponentKinds ==
  <<DefaultOptions,
    [onMount |-> TRUE, onUpdate |-> TRUE, noServerRender |-> FALSE],
    [onMount |-> FALSE, onUpdate |-> TRUE, noServerRender |-> FALSE],
    [onMount |-> TRUE, onUpdate |-> FALSE, noServerRender |-> TRUE]>>

ComponentOptions == {ComponentKinds[i] : i \in DOMAIN ComponentKinds}

Conds ==
  {c \in [Nodes -> (0 - NumNodes)..NumNodes] :
     \A n \in Nodes : c[n] < n /\ (0 - c[n]) < n}

\* nested trees of components with the default options
TreeApps ==
  [cond : Conds, options : {[n \in Nodes |-> DefaultOptions]}, noServerRender : {FALSE}, throws : {NoThrows}, crashes : {NoCrashes},
   mounts : {NoMounts}]

\* flat trees of components with any options, under any provider
FlatApps ==
  [cond : {[n \in Nodes |-> 0]}, options : [Nodes -> ComponentOptions],
   noServerRender : BOOLEAN, throws : {NoThrows}, crashes : {NoCrashes},
   mounts : {NoMounts}]

Apps == TreeApps \cup FlatApps

Init ==
  /\ FRONTLOAD_QUEUES = << >>
  /\ providers = << >>
  /\ app \in Apps
  /\ loaded = [n \in Nodes |-> FALSE]
  /\ execCount = [n \in Nodes |-> 0]
  /\ fetches = << >>
  /\ flushes = << >>
  /\ run = IdleRun

Next ==
  \/ \E b \in BudgetOptions, l \in LoggingOptions, pr \in BOOLEAN :
       FrontloadServerRender(b, l, pr)
  \/ \E f \in DOMAIN fetches, o \in {"fulfilled", "rejected"} : Settle(f, o)
  \/ FlushThen

\* a server render of <App /> on a fresh module instance
Spec == Init /\ [][Next]_vars

\* ------------------------------------------------------- sequential runs
\* between two calls the test resets the call counters and builds a clean
\* store (`sinonSandbox.reset(); store = buildCleanStore()`); the registry
\* is the module's and is not touched. The finished run's result is kept.
ResetBetweenRuns ==
  /\ run.pc = "done"
  /\ Len(run.history) + 1 < MaxRuns
  /\ run' = [IdleRun EXCEPT !.history =
               Append(run.history,
                      [budget |-> run.budget, output |-> run.output,
                       execCount |-> execCount, flushCount |-> run.flushCount])]
  /\ loaded' = [n \in Nodes |-> FALSE]
  /\ execCount' = [n \in Nodes |-> 0]
  /\ fetches' = << >>
  /\ flushes' = << >>
  /\ UNCHANGED <<FRONTLOAD_QUEUES, providers, app>>

RepeatInit ==
  /\ FRONTLOAD_QUEUES = << >>
  /\ providers = << >>
  /\ app \in Apps
  /\ loaded = [n \in Nodes |-> FALSE]
  /\ execCount = [n \in Nodes |-> 0]
  /\ fetches = << >>
  /\ flushes = << >>
  /\ run = IdleRun

\* the same call is repeated; the mock api calls of the test always resolve
RepeatNext ==
  \/ \E b \in BudgetOptions :
       /\ run.history # << >> => b = run.history[1].budget
       /\ FrontloadServerRender(b, "unset", FALSE)
  \/ \E f \in DOMAIN fetches : Settle(f, "fulfilled")
  \/ FlushThen
  \/ ResetBetweenRuns

\* server renders of the same <App /> one after the other in one process
RepeatSpec == RepeatInit /\ [][RepeatNext]_vars

\* ------------------------------------------------- providers and pushes
RECURSIVE QueuedTotal(_)
QueuedTotal(qs) == IF qs = << >> THEN 0 ELSE Len(Head(qs)) + QueuedTotal(Tail(qs))

RECURSIVE ExecTotal(_)
ExecTotal(n) == IF n = 0 THEN 0 ELSE execCount[n] + ExecTotal(n - 1)

\* new Frontload(props): isServer resolved from props.isServer or IS_SERVER,
\* a queue allocated at the end of the registry; firstClientRenderDone is
\* not set by the constructor (falsy)
Construct(isServer, noServerRender) ==
  /\ Len(providers) < MaxProviders
  /\ providers' = Append(providers,
       [isServer |-> isServer, noServerRender |-> noServerRender,
        queueIndex |-> Len(FRONTLOAD_QUEUES), firstClientRenderDone |-> FALSE])
  /\ FRONTLOAD_QUEUES' = Append(FRONTLOAD_QUEUES, << >>)
  /\ UNCHANGED <<app, loaded, execCount, fetches, flushes, run>>

\* the componentDidMount hook installed by the constructor; React calls it
\* once, after the first commit in a browser, never in a server render
ComponentDidMount(p) ==
  /\ p \in DOMAIN providers
  /\ ~providers[p].isServer
  /\ ~providers[p].firstClientRenderDone
  /\ providers' = [providers EXCEPT ![p].firstClientRenderDone = TRUE]
  /\ UNCHANGED <<FRONTLOAD_QUEUES, app, loaded, execCount, fetches, flushes, run>>

\* Mutation: the context reports the instance field on the server too.
contextRawField(prov) == prov.firstClientRenderDone

\* the firstClientRenderDone entry of getChildContext
contextFirstClientRenderDone(prov) ==
  IF prov.isServer THEN TRUE ELSE prov.firstClientRenderDone

\* context.frontload.pushFrontload(frontload, options, lifecyclePhase, ...)
\* called by connected component n under provider p
Push(p, n, isMount) ==
  /\ p \in DOMAIN providers
  /\ LET prov == providers[p]
         options == app.options[n]
         act == pushFrontload(prov.isServer, prov.firstClientRenderDone,
                              prov.noServerRender, options, isMount)
     IN  CASE act = "enqueue" /\ prov.queueIndex + 1 \in DOMAIN FRONTLOAD_QUEUES ->
                /\ QueuedTotal(FRONTLOAD_QUEUES) < MaxQueue
                /\ FRONTLOAD_QUEUES' = [FRONTLOAD_QUEUES EXCEPT ![prov.queueIndex + 1] =
                                          unshift(@, Request(n, options, isMount))]
                /\ UNCHANGED execCount
          [] act = "enqueue" /\ prov.queueIndex + 1 \notin DOMAIN FRONTLOAD_QUEUES ->
                \* `queue` is undefined, `queue.unshift` throws a TypeError
                UNCHANGED <<FRONTLOAD_QUEUES, execCount>>
          [] act = "execute" ->
                /\ ExecTotal(NumNodes) < MaxExec
                /\ execCount' = [execCount EXCEPT ![n] = @ + 1]
                /\ UNCHANGED FRONTLOAD_QUEUES
          [] OTHER -> UNCHANGED <<FRONTLOAD_QUEUES, execCount>>
  /\ UNCHANGED <<providers, app, loaded, fetches, flushes, run>>

\* connected components of consecutive kinds, starting at any kind (the
\* components are interchangeable here, the provider's own props decide)
PushApps ==
  [cond : {[n \in Nodes |-> 0]},
   options : {[n \in Nodes |->
                 ComponentKinds[((n + k) % Len(ComponentKinds)) + 1]] :
                k \in DOMAIN ComponentKinds},
   noServerRender : {FALSE}, throws : {NoThrows}, crashes : {NoCrashes},
   mounts : {NoMounts}]

PushInit ==
  /\ FRONTLOAD_QUEUES = << >>
  /\ providers = << >>
  /\ app \in PushApps
  /\ loaded = [n \in Nodes |-> FALSE]
  /\ execCount = [n \in Nodes |-> 0]
  /\ fetches = << >>
  /\ flushes = << >>
  /\ run = IdleRun

PushNext ==
  \/ \E s \in BOOLEAN, nsr \in BOOLEAN : Construct(s, nsr)
  \/ \E p \in 1..MaxProviders : ComponentDidMount(p)
  \/ \E p \in 1..MaxProviders, n \in Nodes, m \in BOOLEAN : Push(p, n, m)

\* providers mounted in a process, their components pushing
PushSpec == PushInit /\ [][PushNext]_vars

\* ------------------------------------------------- flushes of the registry
FlushOptionSets == [firstClientRender : BOOLEAN, noServerRender : BOOLEAN]

\* flushQueues(index, options): with index undefined every slot is flushed
\* with no options and the registry is replaced by []; otherwise the
\* requests of the slot that pass the filter are executed, the slot is
\* replaced by [] and the promise of waitForAllToComplete is returned;
\* skipped is the number of requests of the slot that were not executed
FlushQueues(index, options) ==
  /\ Len(flushes) < MaxFlushes
  /\ IF index = Undefined
       THEN LET fl == flushAll(FRONTLOAD_QUEUES, 1, fetches, << >>, execCount)
            IN  /\ options = NoFlushOptions
                /\ fetches' = fl.fetches
                /\ execCount' = fl.execCount
                /\ flushes' = Append(flushes,
                     [index |-> index, skipped |-> 0,
                      batches |-> fl.batches,
                      state |-> flushState(fl.fetches, fl.batches)])
       ELSE LET queue == FRONTLOAD_QUEUES[index + 1]
                reqs == flushFilter(queue, options)
                fts == fetches \o launch(reqs)
                batch == newIds(fetches, reqs)
            IN  /\ index + 1 \in DOMAIN FRONTLOAD_QUEUES
                /\ fetches' = fts
                /\ execCount' = counted(execCount, reqs)
                /\ flushes' = Append(flushes,
                     [index |-> index, skipped |-> Len(queue) - Len(reqs),
                      batches |-> <<batch>>,
                      state |-> batchState(fts, batch)])
  /\ FRONTLOAD_QUEUES' = cleanQueues(FRONTLOAD_QUEUES, index)
  /\ UNCHANGED <<providers, app, loaded, run>>

\* two components with the default options among components with
\* noServerRender, which never reach a queue
FlushApps ==
  [cond : {[n \in Nodes |-> 0]},
   options : {[n \in Nodes |-> IF n \in {1, 2} THEN DefaultOptions
                                ELSE ComponentKinds[4]]},
   noServerRender : {FALSE}, throws : {NoThrows}, crashes : {NoCrashes},
   mounts : {NoMounts}]

FlushInit ==
  /\ FRONTLOAD_QUEUES = << >>
  /\ providers = << >>
  /\ app \in FlushApps
  /\ loaded = [n \in Nodes |-> FALSE]
  /\ execCount = [n \in Nodes |-> 0]
  /\ fetches = << >>
  /\ flushes = << >>
  /\ run = IdleRun

\* server providers whose components push on mount, flushes of one slot or
\* of the whole registry, and the fetches resolving as the mock api calls do
FlushNext ==
  \/ Construct(TRUE, FALSE)
  \/ \E p \in 1..MaxProviders, n \in Nodes : Push(p, n, TRUE)
  \/ \E i \in {Undefined} \cup (0..(MaxProviders - 1)), o \in FlushOptionSets :
       FlushQueues(i, o)
  \/ \E f \in DOMAIN fetches : Settle(f, "fulfilled")

FlushSpec == FlushInit /\ [][FlushNext]_vars

\* ------------------------------------- pushes while a flush is going on
\* components with the default options; the fetch function of at most one
\* of them mounts another connected component when it is called
ReentrantApps ==
  [cond : {[n \in Nodes |-> 0]},
   options : {[n \in Nodes |-> DefaultOptions]},
   noServerRender : {FALSE}, throws : {NoThrows}, crashes : {NoCrashes},
   mounts : {[n \in Nodes |-> IF n = a THEN k ELSE 0] :
               a \in Nodes, k \in 0..NumNodes}]

ReentrantInit ==
  /\ FRONTLOAD_QUEUES = << >>
  /\ providers = << >>
  /\ app \in ReentrantApps
  /\ loaded = [n \in Nodes |-> FALSE]
  /\ execCount = [n \in Nodes |-> 0]
  /\ fetches = << >>
  /\ flushes = << >>
  /\ run = IdleRun

\* a server provider whose components push on mount, and flushes of its
\* slot
ReentrantNext ==
  \/ Construct(TRUE, FALSE)
  \/ \E p \in 1..MaxProviders, n \in Nodes : Push(p, n, TRUE)
  \/ \E i \in 0..(MaxProviders - 1), o \in FlushOptionSets : FlushQueues(i, o)

ReentrantSpec == ReentrantInit /\ [][ReentrantNext]_vars

\* -------------------------------- coordinator in a process with providers
\* components with the default options, side by side or nested in a chain
SharedApps ==
  [cond : {[n \in Nodes |-> 0], [n \in Nodes |-> n - 1]},
   options : {[n \in Nodes |-> DefaultOptions]},
   noServerRender : {FALSE}, throws : {NoThrows}, crashes : {NoCrashes},
   mounts : {NoMounts}]

SharedInit ==
  /\ FRONTLOAD_QUEUES = << >>
  /\ providers = << >>
  /\ app \in SharedApps
  /\ loaded = [n \in Nodes |-> FALSE]
  /\ execCount = [n \in Nodes |-> 0]
  /\ fetches = << >>
  /\ flushes = << >>
  /\ run = IdleRun

\* providers, of a server or of a client, are mounted and their
\* components push, then frontloadServerRender is called in the same process
SharedNext ==
  \/ \E isServer \in BOOLEAN : run.pc = "idle" /\ Construct(isServer, FALSE)
  \/ \E p \in 1..MaxProviders, n \in Nodes : run.pc = "idle" /\ Push(p, n, TRUE)
  \/ \E b \in BudgetOptions : FrontloadServerRender(b, "unset", FALSE)
  \/ \E f \in DOMAIN fetches : Settle(f, "fulfilled")
  \/ FlushThen

SharedSpec == SharedInit /\ [][SharedNext]_vars

\* --------------------------------------- fetch functions that throw
\* components with the default options, side by side or nested in a chain,
\* the fetch functions of some of them throwing instead of returning
ThrowApps ==
  [cond : {[n \in Nodes |-> 0], [n \in Nodes |-> n - 1]},
   options : {[n \in Nodes |-> DefaultOptions]},
   noServerRender : {FALSE}, throws : [Nodes -> BOOLEAN], crashes : {NoCrashes},
   mounts : {NoMounts}]

ThrowInit ==
  /\ FRONTLOAD_QUEUES = << >>
  /\ providers = << >>
  /\ app \in ThrowApps
  /\ loaded = [n \in Nodes |-> FALSE]
  /\ execCount = [n \in Nodes |-> 0]
  /\ fetches = << >>
  /\ flushes = << >>
  /\ run = IdleRun

ThrowNext ==
  \/ \E b \in BudgetOptions : FrontloadServerRender(b, "unset", FALSE)
  \/ \E f \in DOMAIN fetches, o \in {"fulfilled", "rejected"} : Settle(f, o)
  \/ FlushThen

ThrowSpec == ThrowInit /\ [][ThrowNext]_vars

\* ------------------------------------------------ renders that throw
\* components with the default options, side by side or nested in a chain,
\* the render of some of them throwing when their data is absent or present
CrashApps ==
  [cond : {[n \in Nodes |-> 0], [n \in Nodes |-> n - 1]},
   options : {[n \in Nodes |-> DefaultOptions]},
   noServerRender : {FALSE}, throws : {NoThrows},
   crashes : [Nodes -> {"never", "loading", "loaded"}],
   mounts : {NoMounts}]

CrashInit ==
  /\ FRONTLOAD_QUEUES = << >>
  /\ providers = << >>
  /\ app \in CrashApps
  /\ loaded = [n \in Nodes |-> FALSE]
  /\ execCount = [n \in Nodes |-> 0]
  /\ fetches = << >>
  /\ flushes = << >>
  /\ run = IdleRun

\* the process goes on after a call has failed: the next request is served
\* with a clean store, by a call that finds the registry as it was left
CallAfterFailure ==
  /\ run.pc \in {"thrown", "rejected"}
  /\ Len(run.history) + 1 < MaxRuns
  /\ run' = [IdleRun EXCEPT !.history =
               Append(run.history,
                      [budget |-> run.budget, output |-> run.output,
                       execCount |-> execCount, flushCount |-> run.flushCount])]
  /\ loaded' = [n \in Nodes |-> FALSE]
  /\ execCount' = [n \in Nodes |-> 0]
  /\ fetches' = << >>
  /\ flushes' = << >>
  /\ UNCHANGED <<FRONTLOAD_QUEUES, providers, app>>

CrashNext ==
  \/ \E b \in BudgetOptions : FrontloadServerRender(b, "unset", FALSE)
  \/ \E f \in DOMAIN fetches : Settle(f, "fulfilled")
  \/ FlushThen
  \/ CallAfterFailure

CrashSpec == CrashInit /\ [][CrashNext]_vars

\* ------------------------------------------ two calls in one process
\* what a call of frontloadServerRender owns: its closure variables, the
\* store of its request, the promises of its fetches and flushes
Context ==
  [run |-> [run EXCEPT !.other = << >>], loaded |-> loaded,
   execCount |-> execCount, fetches |-> fetches, flushes |-> flushes]

\* a call that has not started, with a clean store
FreshContext ==
  [run |-> IdleRun, loaded |-> [n \in Nodes |-> FALSE],
   execCount |-> [n \in Nodes |-> 0], fetches |-> << >>, flushes |-> << >>]

\* between two jobs the event loop turns to the other call: the call that
\* was running is set aside as it is, the other one is taken up where it
\* was left; the registry is the module's and stays as it is
SwitchRun ==
  /\ LET there == IF run.other = << >> THEN FreshContext ELSE run.other[1]
     IN  /\ run' = [there.run EXCEPT !.other = <<Context>>]
         /\ loaded' = there.loaded
         /\ execCount' = there.execCount
         /\ fetches' = there.fetches
         /\ flushes' = there.flushes
  /\ UNCHANGED <<FRONTLOAD_QUEUES, providers, app>>

ConcurrentInit ==
  /\ FRONTLOAD_QUEUES = << >>
  /\ providers = << >>
  /\ app \in SharedApps
  /\ loaded = [n \in Nodes |-> FALSE]
  /\ execCount = [n \in Nodes |-> 0]
  /\ fetches = << >>
  /\ flushes = << >>
  /\ run = IdleRun

\* two calls of frontloadServerRender for the same app, each with its own
\* options and store, their jobs interleaved by the event loop
ConcurrentNext ==
  \/ \E b \in BudgetOptions : FrontloadServerRender(b, "unset", FALSE)
  \/ \E f \in DOMAIN fetches : Settle(f, "fulfilled")
  \/ FlushThen
  \/ SwitchRun

ConcurrentSpec == ConcurrentInit /\ [][ConcurrentNext]_vars

\* --------------------------------------------- one slot flushed repeatedly
\* the caller of flushQueues lets go of the promises of its flushes once
\* they have all settled, as the worker does when it recurses
DropSettled ==
  /\ flushes # << >>
  /\ \A k \in DOMAIN flushes : flushes[k].state # "pending"
  /\ \A f \in DOMAIN fetches : fetches[f].state # "pending"
  /\ fetches' = << >>
  /\ flushes' = << >>
  /\ UNCHANGED <<FRONTLOAD_QUEUES, providers, app, loaded, execCount, run>>

\* server providers that live on through flush after flush: their
\* components push, the slots are flushed, the fetches resolve
ConsumeNext ==
  \/ Construct(TRUE, FALSE)
  \/ \E p \in 1..MaxProviders, n \in Nodes :
       /\ ExecTotal(NumNodes) + QueuedTotal(FRONTLOAD_QUEUES) < MaxQueue + MaxExec
       /\ Push(p, n, TRUE)
  \/ \E i \in {Undefined} \cup (0..(MaxProviders - 1)), o \in FlushOptionSets :
       FlushQueues(i, o)
  \/ \E f \in DOMAIN fetches : Settle(f, "fulfilled")
  \/ DropSettled

ConsumeSpec == FlushInit /\ [][ConsumeNext]_vars

\* ------------------------------------------------------------------ claims
\* the fetch promises a flush promise waits for
FetchesOf(fl) ==
  UNION {{fl.batches[b][j] : j \in DOMAIN fl.batches[b]} : b \in DOMAIN fl.batches}

AllSettled(fl) == \A f \in FetchesOf(fl) : fetches[f].state # "pending"

\* C1: the promise of a flush never rejects, is not fulfilled while one of
\* the fetches the flush launched is pending, and is fulfilled once all of
\* them have settled, whatever subset of them rejected.
C1_FlushWaitsForAll ==
  \A k \in DOMAIN flushes :
    /\ flushes[k].state # "rejected"
    /\ flushes[k].state = "fulfilled" <=> AllSettled(flushes[k])

\* a flush of three requests is fulfilled, one fetch rejected, two fulfilled
C1_Witness ==
  \E k \in DOMAIN flushes :
    /\ flushes[k].state = "fulfilled"
    /\ Cardinality(FetchesOf(flushes[k])) = 3
    /\ Cardinality({f \in FetchesOf(flushes[k]) : fetches[f].state = "rejected"}) = 1

\* C2: fetch rejections never reject the promise of frontloadServerRender:
\* once the fetches of a flush have settled the callback can run, and the
\* finished run has called render(false) once and returns its output.
C2_RejectionsAbsorbed ==
  /\ run.pc # "rejected"
  /\ (run.pc = "flushing" /\ AllSettled(flushes[Len(flushes)]))
        => flushes[Len(flushes)].state = "fulfilled"
  /\ run.pc = "done" => (run.finalRenders = 1 /\ run.output = Output(loaded))

\* a run is done although every fetch of its last flush rejected
C2_Witness ==
  /\ run.pc = "done"
  /\ run.finalRenders = 1
  /\ fetches # << >>
  /\ \A f \in DOMAIN fetches : fetches[f].state = "rejected"

\* nesting: every node has the default options and appears once the data of
\* the node it depends on has arrived
ChainApp ==
  /\ ~app.noServerRender
  /\ \A n \in Nodes : app.cond[n] >= 0 /\ app.options[n] = DefaultOptions

RECURSIVE Level(_)
Level(n) == IF app.cond[n] <= 0 THEN 1 ELSE Level(app.cond[n]) + 1

Max(S) == CHOOSE x \in S : \A y \in S : y <= x

Depth == Max({Level(n) : n \in Nodes})

\* no fetch launched by the run has rejected
FetchesResolved == ~run.rejections

Unresolved == {n \in Nodes : run.output[n] = "loading"}

ValidBudget == run.budget.set /\ run.budget.value >= 1

\* C3 as stated: with maxPasses = D the output has no unresolved node; with
\* maxPasses = D - 1 it has one and exactly one diagnostic is emitted.
C3_Original ==
  (run.pc = "done" /\ ChainApp /\ FetchesResolved /\ ValidBudget) =>
    /\ run.budget.value = Depth => Unresolved = {}
    /\ run.budget.value = Depth - 1 => (Unresolved # {} /\ run.warnings = 1)

\* C3 amended: the diagnostic is the WARNING log, which is emitted once when
\* logging is on (not a production build, withLogging unset or true) and
\* not at all otherwise.
C3_NestingDepth ==
  (run.pc = "done" /\ ChainApp /\ FetchesResolved /\ ValidBudget) =>
    /\ run.budget.value = Depth => Unresolved = {}
    /\ run.budget.value = Depth - 1 =>
         /\ Unresolved # {}
         /\ run.warnings =
              IF ~run.production /\ run.logging # "false" THEN 1 ELSE 0

\* depth 3 rendered with a budget of 2: one node left loading, one warning
C3_Witness ==
  /\ run.pc = "done" /\ ChainApp /\ FetchesResolved
  /\ Depth = 3 /\ run.budget.set /\ run.budget.value = 2
  /\ Cardinality(Unresolved) = 1
  /\ run.warnings = 1

\* C4: with a budget of at least the nesting depth D the result is that of
\* a budget of exactly D: complete output, a node of level l executed
\* D - l + 1 times, D flushes, and no pass after the one that finds nothing new.
C4_BudgetBeyondDepth ==
  (run.pc = "done" /\ ChainApp /\ FetchesResolved /\ ValidBudget
     /\ run.budget.value >= Depth) =>
    /\ \A n \in Nodes : run.output[n] = "loaded"
    /\ \A n \in Nodes : execCount[n] = Depth - Level(n) + 1
    /\ run.flushCount = Depth
    /\ run.dryRuns = IF run.budget.value = Depth THEN Depth ELSE Depth + 1

\* depth 2 (a parent and two children) with a budget of 3: parent run twice
C4_Witness ==
  /\ run.pc = "done" /\ ChainApp /\ FetchesResolved
  /\ Depth = 2 /\ run.budget.set /\ run.budget.value = 3
  /\ app.cond = [n \in Nodes |-> IF n = 1 THEN 0 ELSE 1]
  /\ execCount = [n \in Nodes |-> IF n = 1 THEN 2 ELSE 1]
  /\ run.flushCount = 2

\* C5: with a budget M >= 1 the run makes at most M dry runs, the pass
\* counter being the number of dry runs made, then at most one final render
\* which ends the run: at most M + 1 calls of the renderer.
C5_RenderBound ==
  ValidBudget =>
    /\ run.dryRuns = run.renderNumber
    /\ run.renderNumber <= run.budget.value
    /\ run.finalRenders = (IF run.pc = "done" THEN 1 ELSE 0)
    /\ run.dryRuns + run.finalRenders <= run.budget.value + 1

\* a run used its whole budget: M dry runs and the final render
C5_Witness ==
  /\ run.pc = "done" /\ ValidBudget
  /\ run.budget.value = 3
  /\ run.dryRuns = 3 /\ run.finalRenders = 1

\* C6: a budget below 1 fails before the renderer is called.
C6_FailFast ==
  (run.pc # "idle" /\ run.budget.set /\ run.budget.value < 1) =>
    (run.pc = "rejected" /\ run.dryRuns = 0 /\ run.finalRenders = 0)

EffectiveNoServerRender(n) == app.noServerRender \/ app.options[n].noServerRender

\* C8: over a server render, a node with noServerRender (its own or the
\* provider's) never has its fetch run nor a promise held for it, while at
\* the end of the run every other mount-eligible node that is always rendered
\* has had its fetch run.
C8_NoServerRenderSkipped ==
  /\ \A n \in Nodes : EffectiveNoServerRender(n) =>
        /\ execCount[n] = 0
        /\ \A f \in DOMAIN fetches : fetches[f].node # n
  /\ run.pc = "done" =>
        \A n \in Nodes :
          (~EffectiveNoServerRender(n) /\ app.options[n].onMount /\ app.cond[n] = 0)
            => execCount[n] >= 1

\* one node has noServerRender and was not run, the two others were
C8_Witness ==
  /\ run.pc = "done"
  /\ ~app.noServerRender
  /\ \E n \in Nodes :
        /\ app.options[n].noServerRender /\ execCount[n] = 0
        /\ \A m \in Nodes \ {n} : ~app.options[m].noServerRender /\ execCount[m] >= 1

\* what a push can be seen to do
Enqueued(p, n, isMount) ==
  /\ FRONTLOAD_QUEUES' = [FRONTLOAD_QUEUES EXCEPT ![providers[p].queueIndex + 1] =
                            <<Request(n, app.options[n], isMount)>> \o @]
  /\ execCount' = execCount

Executed(n) ==
  /\ execCount' = [execCount EXCEPT ![n] = @ + 1]
  /\ FRONTLOAD_QUEUES' = FRONTLOAD_QUEUES

Skipped ==
  /\ FRONTLOAD_QUEUES' = FRONTLOAD_QUEUES
  /\ execCount' = execCount

LifecycleEligible(n, isMount) ==
  IF isMount THEN app.options[n].onMount ELSE app.options[n].onUpdate

QueueRoom == QueuedTotal(FRONTLOAD_QUEUES) < MaxQueue
ExecRoom == ExecTotal(NumNodes) < MaxExec

ServerProviders == {p \in DOMAIN providers : providers[p].isServer}
ClientProviders == {p \in DOMAIN providers : ~providers[p].isServer}

\* C7: on a server provider without noServerRender, a node with
\* {onMount: true, onUpdate: false} is enqueued once by a mount push and not
\* at all by an update push, a node with {onMount: false, onUpdate: true} the
\* other way round; no push on a server provider runs a fetch.
C7_ServerLifecycle ==
  \A p \in ServerProviders, n \in Nodes, m \in BOOLEAN :
    /\ ~ENABLED (Push(p, n, m) /\ execCount' # execCount)
    /\ (/\ ~providers[p].noServerRender
        /\ ~app.options[n].noServerRender
        /\ app.options[n].onMount # app.options[n].onUpdate
        /\ QueueRoom)
         => IF LifecycleEligible(n, m)
              THEN /\ ENABLED (Push(p, n, m) /\ Enqueued(p, n, m))
                   /\ ~ENABLED (Push(p, n, m) /\ ~Enqueued(p, n, m))
              ELSE /\ ENABLED (Push(p, n, m) /\ Skipped)
                   /\ ~ENABLED (Push(p, n, m) /\ ~Skipped)

\* the slot of a server provider holds exactly the update push of a node
\* with {onMount: false, onUpdate: true}, and no fetch has run
C7_Witness ==
  \E p \in ServerProviders :
    LET queue == FRONTLOAD_QUEUES[providers[p].queueIndex + 1]
    IN  /\ ~providers[p].noServerRender
        /\ Len(queue) = 1
        /\ ~queue[1].isMount /\ ~queue[1].options.onMount /\ queue[1].options.onUpdate
        /\ \A n \in Nodes : execCount[n] = 0

ClientEffectiveNoServerRender(p, n) ==
  providers[p].noServerRender \/ app.options[n].noServerRender

\* C9 as stated: before the latch a push with effective noServerRender false
\* neither executes nor enqueues; after the latch the same push executes.
C9_Original ==
  \A p \in ClientProviders, n \in Nodes, m \in BOOLEAN :
    (~ClientEffectiveNoServerRender(p, n) /\ ExecRoom) =>
      IF providers[p].firstClientRenderDone
        THEN ENABLED (Push(p, n, m) /\ Executed(n))
        ELSE ~ENABLED (Push(p, n, m) /\ ~Skipped)

\* C9 amended: after the latch the same push executes if it is eligible for
\* its lifecycle phase (mount with onMount not false, update with onUpdate
\* true); a push that is not eligible is skipped before and after the latch.
C9_ClientLatch ==
  \A p \in ClientProviders, n \in Nodes, m \in BOOLEAN :
    (~ClientEffectiveNoServerRender(p, n) /\ ExecRoom) =>
      IF providers[p].firstClientRenderDone /\ LifecycleEligible(n, m)
        THEN /\ ENABLED (Push(p, n, m) /\ Executed(n))
             /\ ~ENABLED (Push(p, n, m) /\ ~Executed(n))
        ELSE /\ ENABLED (Push(p, n, m) /\ Skipped)
             /\ ~ENABLED (Push(p, n, m) /\ ~Skipped)

\* the only provider is a client provider without noServerRender, its latch
\* is set, and the fetch of a node without noServerRender has run
C9_Witness ==
  /\ Len(providers) = 1
  /\ ~providers[1].isServer /\ ~providers[1].noServerRender
  /\ providers[1].firstClientRenderDone
  /\ \E n \in Nodes : ~app.options[n].noServerRender /\ execCount[n] = 1

\* C10: on a client provider whose latch is not set, an eligible push
\* executes at once when noServerRender is set on the provider or on the
\* node, and is skipped when it is set on neither.
C10_ClientNoServerRender ==
  \A p \in ClientProviders, n \in Nodes, m \in BOOLEAN :
    (~providers[p].firstClientRenderDone /\ LifecycleEligible(n, m) /\ ExecRoom) =>
      IF ClientEffectiveNoServerRender(p, n)
        THEN /\ ENABLED (Push(p, n, m) /\ Executed(n))
             /\ ~ENABLED (Push(p, n, m) /\ ~Executed(n))
        ELSE /\ ENABLED (Push(p, n, m) /\ Skipped)
             /\ ~ENABLED (Push(p, n, m) /\ ~Skipped)

\* the only provider is a client provider without noServerRender whose
\* latch is not set, and the fetch of a node with noServerRender has run
\* while no other has
C10_Witness ==
  /\ Len(providers) = 1
  /\ ~providers[1].isServer /\ ~providers[1].noServerRender
  /\ ~providers[1].firstClientRenderDone
  /\ \E n \in Nodes :
        /\ app.options[n].noServerRender /\ execCount[n] = 1
        /\ \A k \in Nodes \ {n} : ~app.options[k].noServerRender /\ execCount[k] = 0

\* C11 as stated: on a client provider a push that is not eligible for its
\* lifecycle phase never executes, and a node with both flags true executes
\* on the mount and on every update.
C11_Original ==
  \A p \in ClientProviders, n \in Nodes, m \in BOOLEAN :
    /\ ~LifecycleEligible(n, m) => ~ENABLED (Push(p, n, m) /\ ~Skipped)
    /\ (app.options[n].onMount /\ app.options[n].onUpdate /\ ExecRoom)
          => ENABLED (Push(p, n, m) /\ Executed(n))

\* C11 amended: a push that is not eligible for its lifecycle phase is
\* skipped whatever noServerRender and the latch are; a node with both flags
\* true executes on the mount and on every update once the client executes
\* at all, that is when noServerRender is in effect or the latch is set.
C11_ClientLifecycle ==
  \A p \in ClientProviders, n \in Nodes, m \in BOOLEAN :
    /\ ~LifecycleEligible(n, m) =>
          /\ ENABLED (Push(p, n, m) /\ Skipped)
          /\ ~ENABLED (Push(p, n, m) /\ ~Skipped)
    /\ (/\ app.options[n].onMount /\ app.options[n].onUpdate
        /\ ClientEffectiveNoServerRender(p, n) \/ providers[p].firstClientRenderDone
        /\ ExecRoom)
          => /\ ENABLED (Push(p, n, m) /\ Executed(n))
             /\ ~ENABLED (Push(p, n, m) /\ ~Executed(n))

\* under a client provider with noServerRender whose latch is not set, the
\* fetch of a node with {onMount: true, onUpdate: true} has run while a node
\* with {onMount: false, onUpdate: true} can be pushed on mount without
\* running
C11_Witness ==
  /\ Len(providers) = 1
  /\ ~providers[1].isServer /\ providers[1].noServerRender
  /\ ~providers[1].firstClientRenderDone
  /\ \E n \in Nodes :
        /\ app.options[n].onMount /\ app.options[n].onUpdate
        /\ execCount[n] = 1
  /\ \E n \in Nodes :
        /\ ~app.options[n].onMount /\ app.options[n].onUpdate
        /\ execCount[n] = 0
        /\ ENABLED (Push(1, n, TRUE) /\ Skipped)

\* what one step may do to the latches: keep every provider, never clear a
\* latch, change one only in the componentDidMount of a client provider,
\* and construct providers with the latch not set
LatchStep ==
  /\ \A p \in DOMAIN providers :
        /\ p \in DOMAIN providers'
        /\ providers[p].firstClientRenderDone => providers'[p].firstClientRenderDone
        /\ providers'[p].firstClientRenderDone # providers[p].firstClientRenderDone
              => (ComponentDidMount(p) /\ ~providers[p].isServer)
  /\ \A q \in DOMAIN providers' \ DOMAIN providers :
        ~providers'[q].firstClientRenderDone

\* what the context of each provider reports
LatchReported ==
  \A p \in DOMAIN providers :
    contextFirstClientRenderDone(providers[p]) =
      (IF providers[p].isServer THEN TRUE ELSE providers[p].firstClientRenderDone)

\* C18: firstClientRenderDone is a one-way latch. A provider is constructed
\* with the latch not set; the only step that changes it is the provider's
\* componentDidMount, which sets it; once set it stays set. The context of a
\* server provider always reports true, that of a client provider the latch.
C18_OneWayLatch == []LatchReported /\ [][LatchStep]_vars

\* a client provider whose latch is set next to a server provider whose
\* context reports true although its own field was never set
C18_Witness ==
  /\ Len(providers) = 2
  /\ ~providers[1].isServer /\ providers[1].firstClientRenderDone
  /\ providers[2].isServer
  /\ contextFirstClientRenderDone(providers[2])
  /\ ~providers[2].firstClientRenderDone

\* the set of rendered nodes does not depend on fetched data
DataIndependent == \A n \in Nodes : app.cond[n] = 0

MountEligible(n) == ~EffectiveNoServerRender(n) /\ app.options[n].onMount

\* C12: when the rendered nodes do not depend on fetched data, a run with
\* an effective budget of at least 1 flushes at most once, the requests of
\* the first dry run: from that flush on every eligible node has been
\* executed exactly once and no other node at all, however many renders
\* follow, and the finished run has flushed if there is an eligible node.
C12_ExactlyOnce ==
  (run.pc # "idle" /\ DataIndependent /\ run.maxNestedFrontloadComponents >= 1) =>
    /\ run.flushCount <= 1
    /\ \A n \in Nodes :
          execCount[n] = IF MountEligible(n) /\ run.flushCount = 1 THEN 1 ELSE 0
    /\ run.pc = "done" =>
          (run.flushCount = 1 <=> \E n \in Nodes : MountEligible(n))

\* three eligible nodes, a budget of 3: two dry runs and the final render
\* enqueued the three requests three times, each fetch ran once
C12_Witness ==
  /\ run.pc = "done" /\ DataIndependent
  /\ run.budget.set /\ run.budget.value = 3
  /\ run.dryRuns = 2 /\ run.finalRenders = 1
  /\ \A n \in Nodes : MountEligible(n) /\ execCount[n] = 1

\* the requests a render enqueues in slot 0 of an empty registry
Slot0(ld) == render(<< >>, ld)[1]

\* a step in which render(false) is called
FinalRenderStep == run'.finalRenders > run.finalRenders

\* C13: the step that calls render(false), in the fixpoint branch or after
\* the last flush, runs no fetch and leaves no promise pending and no
\* request (no slot at all) in the registry; a finished run has an empty
\* registry.
C13_FinalRenderNotFlushed ==
  /\ [](run.pc = "done" =>
          (FRONTLOAD_QUEUES = << >> /\ \A f \in DOMAIN fetches : fetches[f].state # "pending"))
  /\ [][FinalRenderStep =>
          /\ execCount' = execCount
          /\ \A f \in DOMAIN fetches' : fetches'[f].state # "pending"
          /\ QueuedTotal(FRONTLOAD_QUEUES') = 0
          /\ run'.pc = "done"]_vars

\* a run finished in the fixpoint branch after one flush: its final render
\* enqueued three requests, each node's fetch ran only in the flush
C13_Witness ==
  /\ run.pc = "done"
  /\ run.flushCount = 1 /\ run.dryRuns = 2
  /\ Len(Slot0(loaded)) = 3
  /\ \A n \in Nodes : execCount[n] = 1
  /\ FRONTLOAD_QUEUES = << >>

\* a step in which the renderer is called
RenderStep ==
  run'.dryRuns + run'.finalRenders > run.dryRuns + run.finalRenders

\* C14: the renderer is called only in states where no fetch is pending,
\* and a fetch is pending only while the run is suspended on its flush.
C14_RenderAfterSettle ==
  /\ []((\E f \in DOMAIN fetches : fetches[f].state = "pending") => run.pc = "flushing")
  /\ [][RenderStep => \A f \in DOMAIN fetches : fetches[f].state # "pending"]_vars

\* the run is suspended on the flush of pass 2, one fetch of that batch
\* settled, another still in flight
C14_Witness ==
  /\ run.pc = "flushing" /\ run.dryRuns = 2
  /\ \E f \in DOMAIN fetches : fetches[f].state = "pending"
  /\ \E f \in DOMAIN fetches : fetches[f].state # "pending"

\* the nodes the first render of a run shows
VisibleAtStart(n) == Visible(n, [k \in Nodes |-> FALSE])

\* C15: with maxNestedFrontloadComponents unset the budget is 1: one dry
\* run, one flush unless the dry run enqueued nothing, one final render; a
\* node not rendered by the dry run is never executed, no node twice.
C15_DefaultSinglePass ==
  (run.pc # "idle" /\ ~run.budget.set) =>
    /\ run.maxNestedFrontloadComponents = 1
    /\ run.dryRuns = 1
    /\ run.flushCount = IF run.totalFrontloadsInThisRender = 0 THEN 0 ELSE 1
    /\ run.finalRenders = IF run.pc = "done" THEN 1 ELSE 0
    /\ \A n \in Nodes :
          /\ execCount[n] <= 1
          /\ ~VisibleAtStart(n) => execCount[n] = 0

\* no options, a parent and a child: the parent's data arrived, the child
\* is rendered by the final render, shows loading and was never executed
C15_Witness ==
  /\ run.pc = "done" /\ ~run.budget.set
  /\ run.dryRuns = 1 /\ run.flushCount = 1 /\ run.finalRenders = 1
  /\ \E n \in Nodes :
        /\ app.cond[n] > 0 /\ loaded[app.cond[n]]
        /\ run.output[n] = "loading" /\ execCount[n] = 0

\* the run finished in the branch taken when the budget is reached
BudgetBranchDone == run.pc = "done" /\ run.dryRuns = run.flushCount

\* C17 as stated: after the last flush the run calls render(false), emits
\* the diagnostic if and only if slot 0 is not empty, resets the registry
\* and returns that render's output.
C17_Original ==
  BudgetBranchDone =>
    /\ run.warnings = (IF Len(Slot0(loaded)) > 0 THEN 1 ELSE 0)
    /\ FRONTLOAD_QUEUES = << >>
    /\ run.output = Output(loaded) /\ run.finalRenders = 1

\* C17 amended: the diagnostic is the WARNING log; it is emitted if and
\* only if logging is on (not a production build, withLogging true after
\* defaulting) and slot 0 holds more requests after render(false) than the
\* last dry run counted.
C17_BudgetExhausted ==
  BudgetBranchDone =>
    /\ run.warnings =
          (IF /\ ~run.production /\ run.withLogging
              /\ Len(Slot0(loaded)) > run.totalFrontloadsInThisRender
             THEN 1 ELSE 0)
    /\ FRONTLOAD_QUEUES = << >>
    /\ run.output = Output(loaded) /\ run.finalRenders = 1

\* logging is on, the budget of 1 is used up, render(false) enqueued the
\* same three requests again: slot 0 is not empty and nothing is logged
C17_Witness ==
  /\ BudgetBranchDone
  /\ ~run.production /\ run.withLogging
  /\ run.maxNestedFrontloadComponents = 1
  /\ Len(Slot0(loaded)) = 3 /\ run.totalFrontloadsInThisRender = 3
  /\ run.warnings = 0

\* C16: a finished run leaves the registry as a fresh process has it, and a
\* later run of the same call on a clean store ends with the output, the
\* per-node execution counts and the number of flushes of every earlier run.
C16_Idempotent ==
  /\ run.pc \in {"idle", "done"} => FRONTLOAD_QUEUES = << >>
  /\ run.pc = "done" =>
        \A i \in DOMAIN run.history :
          /\ run.budget = run.history[i].budget
          /\ run.output = run.history[i].output
          /\ execCount = run.history[i].execCount
          /\ run.flushCount = run.history[i].flushCount

\* second run of a parent with two children under a budget of 2: the
\* parent ran twice, the children once, as in the first run
C16_Witness ==
  /\ run.pc = "done" /\ Len(run.history) = 1
  /\ run.budget.set /\ run.budget.value = 2
  /\ app.cond = [n \in Nodes |-> IF n = 1 THEN 0 ELSE 1]
  /\ execCount = [n \in Nodes |-> IF n = 1 THEN 2 ELSE 1]
  /\ run.history[1].execCount = execCount
  /\ \A n \in Nodes : run.output[n] = "loaded"

\* what the filter of flushQueues(index, options) lets through
FilterPasses(request, options) ==
  \/ ~options.firstClientRender
  \/ options.noServerRender
  \/ request.options.noServerRender

\* the effect of flushing slot index + 1 with the options: each node's fetch
\* runs once per request of the slot that passes the filter, one promise is
\* created per such request, the slot is empty, no other slot changes
FlushEffect(index, options) ==
  LET queue == FRONTLOAD_QUEUES[index + 1]
      passing == {j \in DOMAIN queue : FilterPasses(queue[j], options)}
  IN  /\ execCount' = [n \in Nodes |->
                         execCount[n] + Cardinality({j \in passing : queue[j].node = n})]
      /\ Len(fetches') = Len(fetches) + Cardinality(passing)
      /\ FRONTLOAD_QUEUES' = [FRONTLOAD_QUEUES EXCEPT ![index + 1] = << >>]

\* C20: a flush of one slot executes every request of the slot when
\* firstClientRender is false, and with firstClientRender true exactly the
\* requests for which the flush's or the request's noServerRender is set;
\* either way the slot is empty afterwards, the others are untouched.
C20_FlushFilter ==
  \A index \in 0..(Len(FRONTLOAD_QUEUES) - 1), options \in FlushOptionSets :
    Len(flushes) < MaxFlushes =>
      /\ ENABLED (FlushQueues(index, options) /\ FlushEffect(index, options))
      /\ ~ENABLED (FlushQueues(index, options) /\ ~FlushEffect(index, options))

\* a flush with firstClientRender of a slot holding a request without
\* noServerRender: nothing was executed and the slot is empty
C20_Witness ==
  \E k \in DOMAIN flushes :
    /\ flushes[k].index # Undefined
    /\ flushes[k].skipped >= 1
    /\ flushes[k].batches = << << >> >>
    /\ FRONTLOAD_QUEUES[flushes[k].index + 1] = << >>
    /\ \A n \in Nodes : execCount[n] = 0

\* a flush that emptied the slot of provider p has fetches in flight
FlushInFlight(p) ==
  \E k \in DOMAIN flushes :
    /\ flushes[k].state = "pending"
    /\ flushes[k].index \in {Undefined, providers[p].queueIndex}

\* the push of node n by provider p put its request in p's slot and ran
\* nothing
Landed(p, n) ==
  LET slot == providers[p].queueIndex + 1
  IN  /\ slot \in DOMAIN FRONTLOAD_QUEUES'
      /\ slot \in DOMAIN FRONTLOAD_QUEUES
      /\ FRONTLOAD_QUEUES'[slot] =
            <<Request(n, app.options[n], TRUE)>> \o FRONTLOAD_QUEUES[slot]
      /\ execCount' = execCount
      /\ fetches' = fetches

\* C19: while the fetches of a flush of its slot are in flight, an eligible
\* push of a server provider puts the request in the provider's slot, where
\* the next flush finds it, and the flush in flight does not run it.
C19_FreshBatch ==
  \A p \in ServerProviders, n \in Nodes :
    (/\ FlushInFlight(p)
     /\ ~providers[p].noServerRender /\ MountEligible(n)
     /\ QueueRoom)
      => /\ ENABLED (Push(p, n, TRUE) /\ Landed(p, n))
         /\ ~ENABLED (Push(p, n, TRUE) /\ ~Landed(p, n))

\* the flush the run is suspended on
LastFlush == flushes[Len(flushes)]

\* the requests of node n a dry run enqueues when the store is ld
Discovered(n, ld) == IF Visible(n, ld) /\ MountEligible(n) THEN 1 ELSE 0

\* a step in which the coordinator flushes
FlushStep == run'.flushCount > run.flushCount

\* C21: the flush of a pass starts every request of that pass's dry run
\* before anything settles: the step invokes the fetch of every discovered
\* node once and leaves all the new promises pending, and while the run is
\* suspended the batch holds one promise per counted request, whatever has
\* settled.
C21_OneBatch ==
  /\ [](run.pc = "flushing" =>
          /\ Len(fetches) = run.totalFrontloadsInThisRender
          /\ FetchesOf(LastFlush) = DOMAIN fetches)
  /\ [][FlushStep =>
          /\ \A f \in DOMAIN fetches' : fetches'[f].state = "pending"
          /\ \A n \in Nodes : execCount'[n] = execCount[n] + Discovered(n, loaded)
          /\ \A n \in Nodes :
                Cardinality({f \in DOMAIN fetches' : fetches'[f].node = n}) =
                  Discovered(n, loaded)]_vars

\* three fetches were started; the one invoked first is still pending, the
\* two invoked after it have settled
C21_Witness ==
  /\ run.pc = "flushing"
  /\ Len(fetches) = 3
  /\ fetches[1].state = "pending"
  /\ fetches[2].state # "pending" /\ fetches[3].state # "pending"
  /\ \A n \in Nodes : execCount[n] = 1

\* the control state of the run, without the note of rejections
Control(r) == [r EXCEPT !.rejections = FALSE]

\* C22: while a fetch of the flush is pending the then-callback cannot run
\* and no step changes the run's control state (no render, no result); a
\* finished run has no pending fetch.
C22_NoTimeout ==
  /\ [](run.pc = "flushing" /\ (\E f \in DOMAIN fetches : fetches[f].state = "pending")
          => ~ENABLED FlushThen)
  /\ [](run.pc = "done" => \A f \in DOMAIN fetches : fetches[f].state # "pending")
  /\ [][(\E f \in DOMAIN fetches : fetches[f].state = "pending" /\ fetches'[f].state = "pending")
          => Control(run') = Control(run)]_vars

\* a run of budget 3 is still in its first pass: two fetches of the batch
\* have settled, one has not, and the callback is not enabled
C22_Witness ==
  /\ run.pc = "flushing" /\ run.maxNestedFrontloadComponents = 3
  /\ run.dryRuns = 1 /\ run.finalRenders = 0
  /\ Cardinality({f \in DOMAIN fetches : fetches[f].state = "pending"}) = 1
  /\ Cardinality({f \in DOMAIN fetches : fetches[f].state = "fulfilled"}) = 2
  /\ ~ENABLED FlushThen

\* C29: started on an empty registry, a run leaves the registry without
\* any slot whenever it is suspended on a flush or done, so every render,
\* dry run or final, starts on an empty registry and its provider gets
\* slot 0.
C29_RegistryCleared ==
  /\ [](run.pc \in {"flushing", "done"} => FRONTLOAD_QUEUES = << >>)
  /\ [][RenderStep => FRONTLOAD_QUEUES = << >> /\ FRONTLOAD_QUEUES' = << >>]_vars

\* the run is suspended on the flush of its third pass with three fetches
\* in flight and the registry has no slot
C29_Witness ==
  /\ run.pc = "flushing" /\ run.dryRuns = 3
  /\ Len(fetches) = 3
  /\ FRONTLOAD_QUEUES = << >>

\* C23: providers constructed later have larger slot indices, so no two
\* providers share one.
C23_UniqueSlots ==
  \A p, q \in DOMAIN providers :
    p < q => providers[p].queueIndex < providers[q].queueIndex

\* C24: the slot of every provider exists in the registry, whatever flushes
\* and resets have happened, and an eligible push of a server provider
\* prepends the request to that slot.
C24_SlotLives ==
  \A p \in ServerProviders :
    /\ providers[p].queueIndex + 1 \in DOMAIN FRONTLOAD_QUEUES
    /\ \A n \in Nodes :
         (~providers[p].noServerRender /\ MountEligible(n) /\ QueueRoom)
           => /\ ENABLED (Push(p, n, TRUE) /\ Landed(p, n))
              /\ ~ENABLED (Push(p, n, TRUE) /\ ~Landed(p, n))

\* C27: no push of a client provider changes the registry, and two client
\* providers with the same noServerRender option and the same latch take
\* the same decision for the same push, whatever their slots are and hold.
C27_ClientFrame ==
  \A p \in ClientProviders, n \in Nodes, m \in BOOLEAN :
    /\ ExecRoom => ENABLED Push(p, n, m)
    /\ ~ENABLED (Push(p, n, m) /\ FRONTLOAD_QUEUES' # FRONTLOAD_QUEUES)
    /\ \A q \in ClientProviders :
         (/\ providers[q].noServerRender = providers[p].noServerRender
          /\ providers[q].firstClientRenderDone = providers[p].firstClientRenderDone
          /\ ExecRoom)
           => (ENABLED (Push(p, n, m) /\ Executed(n))
                 <=> ENABLED (Push(q, n, m) /\ Executed(n)))

\* a server provider's slot holds a request, and a client provider whose
\* latch is set has executed a fetch without touching it
C27_Witness ==
  /\ Len(providers) = 2
  /\ providers[1].isServer /\ ~providers[2].isServer
  /\ providers[2].firstClientRenderDone
  /\ Len(FRONTLOAD_QUEUES[1]) = 1 /\ FRONTLOAD_QUEUES[2] = << >>
  /\ \E n \in Nodes : execCount[n] = 1

\* the requests of node n held in the registry
Held(n) ==
  Cardinality({ij \in (DOMAIN FRONTLOAD_QUEUES) \X (1..MaxQueue) :
                 /\ ij[2] \in DOMAIN FRONTLOAD_QUEUES[ij[1]]
                 /\ FRONTLOAD_QUEUES[ij[1]][ij[2]].node = n})

\* C26 as stated: the coordinator's flush executes the requests of slot 0
\* and no others, and leaves the other slots as they are.
C26_Original ==
  [][(FlushStep /\ FRONTLOAD_QUEUES # << >>) =>
       /\ execCount' = counted(execCount, FRONTLOAD_QUEUES[1])
       /\ \A i \in DOMAIN FRONTLOAD_QUEUES :
            i > 1 => /\ i \in DOMAIN FRONTLOAD_QUEUES'
                     /\ FRONTLOAD_QUEUES'[i] = FRONTLOAD_QUEUES[i]]_vars

\* C26 amended: the coordinator's flush is flushQueues() without index and
\* options: it executes every request of every slot, those the registry
\* held before the dry run and those the dry run enqueued, each once, and
\* leaves the registry without any slot.
C26_FlushesAll ==
  [][FlushStep =>
       /\ \A n \in Nodes :
            execCount'[n] = execCount[n] + Held(n) + Discovered(n, loaded)
       /\ \A n \in Nodes :
            Cardinality({f \in DOMAIN fetches' : fetches'[f].node = n}) =
              Held(n) + Discovered(n, loaded)
       /\ FRONTLOAD_QUEUES' = << >>]_vars

\* a provider mounted before the call held a request of node 1 in slot 0,
\* the dry run's provider got slot 1 and enqueued three requests: the
\* flush ran all four and the registry has no slot
C26_Witness ==
  /\ run.pc = "flushing" /\ run.flushCount = 1
  /\ Len(providers) = 1 /\ providers[1].queueIndex = 0
  /\ run.totalFrontloadsInThisRender = 1
  /\ execCount = [n \in Nodes |-> IF n = 1 THEN 2 ELSE 1]
  /\ Len(fetches) = NumNodes + 1
  /\ FRONTLOAD_QUEUES = << >>

\* C28: a call with a bad configuration fails and renders nothing, and a
\* call with a good one never fails, whatever its fetch functions do: it
\* is idle, suspended on a flush or done with an output.
C28_OnlyMisuseSurfaces ==
  run.pc # "idle" =>
    IF run.budget.set /\ run.budget.value < 1
      THEN run.pc \in {"thrown", "rejected"} /\ run.dryRuns = 0
      ELSE run.pc \in {"flushing", "done"}

\* the store after the fetches of the requests have written their data
Stored(ld, reqs) ==
  [n \in Nodes |-> ld[n] \/ \E j \in DOMAIN reqs : reqs[j].node = n]

\* what a call with the budget produces when it is the only one and every
\* fetch is fulfilled: pass by pass, the requests of a render on an empty
\* registry are counted, run, and their data stored
RECURSIVE Alone(_, _, _, _, _)
Alone(maxNested, renderNumber, frontloadsInLastRender, ld, ec) ==
  LET slot == Slot0(ld)
      new == newFrontloads(Len(slot), frontloadsInLastRender)
  IN  IF new = 0
        THEN [output |-> Output(ld), execCount |-> ec,
              dryRuns |-> renderNumber, flushCount |-> renderNumber - 1]
        ELSE IF budgetReached(renderNumber, maxNested)
          THEN [output |-> Output(Stored(ld, slot)), execCount |-> counted(ec, slot),
                dryRuns |-> renderNumber, flushCount |-> renderNumber]
          ELSE Alone(maxNested, renderNumber + 1, Len(slot),
                     Stored(ld, slot), counted(ec, slot))

\* the finished call of the context produced what it produces alone
AsAlone(c) ==
  c.run.pc = "done" =>
    [output |-> c.run.output, execCount |-> c.execCount,
     dryRuns |-> c.run.dryRuns, flushCount |-> c.run.flushCount] =
      Alone(defaultMaxNested(c.run.budget), 1, 0,
            [n \in Nodes |-> FALSE], [n \in Nodes |-> 0])

\* the number of fetches the call of the context has started, pass by pass
Started(c) ==
  IF c.run.pc = "flushing" THEN Len(c.fetches) = c.run.totalFrontloadsInThisRender
  ELSE TRUE

\* C30: with two calls interleaved at their suspension points the registry
\* has no slot whenever a call is set aside or taken up, each call's flush
\* starts exactly the requests its own dry run counted, and each finished
\* call has the output, execution counts, dry runs and flushes it has when
\* it runs alone.
C30_NoInterference ==
  /\ FRONTLOAD_QUEUES = << >>
  /\ AsAlone(Context) /\ Started(Context)
  /\ \A k \in DOMAIN run.other : AsAlone(run.other[k]) /\ Started(run.other[k])

\* both calls have finished with a budget of 3 on the chain of three
\* nodes, each after three dry runs and three flushes with every node loaded
C30_Witness ==
  /\ run.pc = "done" /\ run.other # << >>
  /\ run.other[1].run.pc = "done"
  /\ app.cond = [n \in Nodes |-> n - 1]
  /\ run.dryRuns = 3 /\ run.other[1].run.dryRuns = 3
  /\ run.flushCount = 3 /\ run.other[1].run.flushCount = 3
  /\ \A n \in Nodes : run.output[n] = "loaded" /\ run.other[1].run.output[n] = "loaded"

\* a step in which flushQueues is called
FlushCalled == Len(flushes') > Len(flushes)

\* the slots the flush recorded last in the next state has gone through
FlushedSlots ==
  LET fl == flushes'[Len(flushes')]
  IN  IF fl.index = Undefined THEN DOMAIN FRONTLOAD_QUEUES ELSE {fl.index + 1}

\* the requests of node n held in the slots
HeldIn(slots, n) ==
  Cardinality({ij \in slots \X (1..(MaxQueue + MaxExec)) :
                 /\ ij[2] \in DOMAIN FRONTLOAD_QUEUES[ij[1]]
                 /\ FRONTLOAD_QUEUES[ij[1]][ij[2]].node = n})

\* what a flush does to the requests of the slots it goes through
Consumed ==
  /\ \A i \in FlushedSlots :
        i \in DOMAIN FRONTLOAD_QUEUES' => FRONTLOAD_QUEUES'[i] = << >>
  /\ \A n \in Nodes : execCount'[n] <= execCount[n] + HeldIn(FlushedSlots, n)
  /\ flushes'[Len(flushes')].skipped = 0 =>
        \A n \in Nodes : execCount'[n] = execCount[n] + HeldIn(FlushedSlots, n)

\* C25: a flush takes every request of the slots it goes through out of
\* them and runs each at most once, exactly once when nothing is filtered
\* out; fetches run in flushes only; and a flush of a slot that holds
\* nothing, as it does after a flush, runs nothing.
C25_ConsumedOnce ==
  /\ [][FlushCalled => Consumed]_vars
  /\ [][execCount' # execCount => FlushCalled]_vars
  /\ [](\A index \in 0..(Len(FRONTLOAD_QUEUES) - 1), options \in FlushOptionSets :
          FRONTLOAD_QUEUES[index + 1] = << >> =>
            ~ENABLED (FlushQueues(index, options) /\ execCount' # execCount))

\* the slot of the only provider has been flushed twice, once holding the
\* request of node 1 and once holding that of node 2: each fetch ran once
\* and the slot is empty
C25_Witness ==
  /\ Len(providers) = 1
  /\ FRONTLOAD_QUEUES = << << >> >>
  /\ execCount[1] = 1 /\ execCount[2] = 1
  /\ flushes # << >> /\ flushes[1].index = 0

\* a step in which frontloadServerRender is called
CallStep == run.pc = "idle" /\ run'.pc # "idle"

\* the requests a dry run enqueues when the store is ld
DiscoveredTotal(ld) == Cardinality({n \in Nodes : Discovered(n, ld) = 1})

\* C32: the pass total of a call is the number of requests of its own dry
\* run when the registry has no slot at the call, and otherwise the size
\* of slot 0 as the other provider left it; when that slot is empty the
\* call finishes at once, without a flush or a fetch, whatever its own dry
\* run enqueued.
C32_CountsSlotZero ==
  [][CallStep =>
       IF FRONTLOAD_QUEUES = << >>
         THEN run'.totalFrontloadsInThisRender = DiscoveredTotal(loaded)
         ELSE /\ run'.totalFrontloadsInThisRender = Len(FRONTLOAD_QUEUES[1])
              /\ FRONTLOAD_QUEUES[1] = << >> =>
                    /\ run'.pc = "done" /\ run'.flushCount = 0
                    /\ execCount' = execCount /\ fetches' = fetches]_vars

\* a client provider was mounted first; the call's dry run enqueued three
\* requests in slot 1, the call counted none, ran no fetch and returned
\* the markup with every node loading
C32_Witness ==
  /\ Len(providers) = 1 /\ ~providers[1].isServer
  /\ run.pc = "done" /\ run.budget.set /\ run.budget.value = 3
  /\ run.totalFrontloadsInThisRender = 0 /\ run.flushCount = 0
  /\ DiscoveredTotal([n \in Nodes |-> FALSE]) = 3
  /\ \A n \in Nodes : execCount[n] = 0 /\ run.output[n] = "loading"

\* the run finished in the branch taken when a pass finds nothing new
FixpointBranchDone == run.pc = "done" /\ run.dryRuns = run.flushCount + 1

\* C33: a run that took the fixpoint branch found as many requests as the
\* pass before, and every node whose request its last dry run enqueued had
\* its fetch run by an earlier flush of the run: the output shows no
\* node whose fetch was never run.
C33_FixpointSound ==
  FixpointBranchDone =>
    /\ run.totalFrontloadsInThisRender = run.frontloadsInLastRender
    /\ \A n \in Nodes : Discovered(n, loaded) = 1 => execCount[n] >= 1

\* a step in which a render throws out of the coordinator
RenderThrowStep ==
  run.pc \notin {"thrown", "rejected"} /\ run'.pc \in {"thrown", "rejected"}

\* the requests of node n the throwing render enqueued before the throw
EnqueuedBeforeThrow(n, ld) ==
  IF n <= renderThrowsAt(ld) THEN Discovered(n, ld) ELSE 0

\* the requests of node n in a queue
InQueue(queue, n) == Len(SelectSeq(queue, LAMBDA f : f.node = n))

\* the requests of node n in the first i slots of the registry
RECURSIVE StaleUpTo(_, _)
StaleUpTo(n, i) ==
  IF i = 0 THEN 0 ELSE InQueue(FRONTLOAD_QUEUES[i], n) + StaleUpTo(n, i - 1)

\* the requests of node n the registry holds
Stale(n) == StaleUpTo(n, Len(FRONTLOAD_QUEUES))

\* C31: a render that throws leaves the registry unreset: the slot of the
\* render's provider stays, holding the requests enqueued before the throw,
\* behind the slots that were there when the call began; the next call,
\* when its dry run renders, counts slot 0 as the failed run left it and
\* its flush runs every stale request besides the requests of its own
\* dry run, which went to another slot.
C31_StaleAfterThrow ==
  [][/\ RenderThrowStep =>
          LET last == FRONTLOAD_QUEUES'[Len(FRONTLOAD_QUEUES')]
          IN  /\ FRONTLOAD_QUEUES' # << >>
              /\ \A n \in Nodes : InQueue(last, n) = EnqueuedBeforeThrow(n, loaded)
              /\ run.pc = "idle" =>
                    /\ Len(FRONTLOAD_QUEUES') = Len(FRONTLOAD_QUEUES) + 1
                    /\ \A i \in DOMAIN FRONTLOAD_QUEUES :
                          FRONTLOAD_QUEUES'[i] = FRONTLOAD_QUEUES[i]
     /\ (CallStep /\ run.history # << >> /\ ~RenderThrowStep) =>
          /\ FRONTLOAD_QUEUES # << >>
          /\ run'.totalFrontloadsInThisRender = Len(FRONTLOAD_QUEUES[1])
          /\ run'.pc = "flushing" /\ run'.flushCount = 1
          /\ \A n \in Nodes :
                execCount'[n] = execCount[n] + Stale(n) + Discovered(n, loaded)]_vars

\* the first call flushed three requests and failed when its second dry
\* run threw at node 2, leaving two requests; the next call counted those
\* two and its flush ran them besides the three of its own dry run
C31_Witness ==
  /\ Len(run.history) = 1 /\ run.history[1].flushCount = 1
  /\ run.pc = "flushing" /\ run.flushCount = 1
  /\ run.totalFrontloadsInThisRender = 2
  /\ execCount = <<2, 2, 1>>
  /\ FRONTLOAD_QUEUES = << >>

\* a step in which flushQueues(index) is called for one slot
SlotFlushStep == FlushCalled /\ flushes'[Len(flushes')].index # Undefined

\* the fetch function of node n was called in the step
Ran(n) == execCount'[n] > execCount[n]

\* C34: a flush of a slot calls no request more than once and discards no
\* request unexecuted, also when a fetch function it calls has a
\* component mounted whose request goes to the front of the slot: each node
\* is called at most as often as it has requests in the slot or was
\* mounted by a fetch the flush called, and the node a called fetch mounts
\* is called by this flush or its request is in the slot afterwards.
C34_OncePerRequest ==
  [][SlotFlushStep =>
       LET index == flushes'[Len(flushes')].index
           queue == FRONTLOAD_QUEUES[index + 1]
       IN  /\ \A n \in Nodes :
                 execCount'[n] - execCount[n] <=
                   InQueue(queue, n)
                     + Cardinality({m \in Nodes : Ran(m) /\ app.mounts[m] = n})
           /\ \A m \in Nodes :
                 Ran(m) /\ app.mounts[m] # 0 =>
                   \/ Ran(app.mounts[m])
                   \/ InQueue(FRONTLOAD_QUEUES'[index + 1], app.mounts[m]) > 0]_vars
====
